---- MODULE Spec2Model ----
(***************************************************************************)
(* The QemuVM supervisor of superqemu (src/src/QemuVM.ts) as a state       *)
(* machine on Node's single-threaded event loop.                           *)
(*                                                                         *)
(* One step of the model is one run-to-completion piece of JavaScript:     *)
(* a public method up to its first real suspension, an event handler up    *)
(* to its first await, or the continuation after an await.  The one        *)
(* exception is EventEmitter.emit: 'statechange' listeners run inside      *)
(* SetState, before the statement that follows the SetState call.  The     *)
(* code after a SetState is therefore kept as a frame on `stack`; while    *)
(* the stack is not empty only listener code (ListenerStart) or the        *)
(* pending continuation (Resume) can run.                                  *)
(*                                                                         *)
(* The model keeps no unbounded history.  A process that has exited, whose *)
(* exit handler has finished and whose output can no longer reach the      *)
(* client, gives its slot back; a promise that has settled is forgotten.   *)
(* What a step did is kept for one state in `ev` (the call or handler      *)
(* that ran) and `emits` (the notifications it emitted).                   *)
(*                                                                         *)
(* Processes are the IProcess contract of src/src/ProcessInterface.ts: a   *)
(* launched process emits 'spawn' once, 'exit'(code) once, produces        *)
(* stdout data, accepts kill() and dispose().  The protocol client         *)
(* (QmpClient.ts) is not part of the sources at hand; the little of it     *)
(* the supervisor relies on is modelled from the specification.            *)
(***************************************************************************)
EXTENDS Integers, Sequences, FiniteSets, TLC

VARIABLES
    definition,                 \* this.definition (command is rewritten by Start)
    win32,                      \* process.platform === 'win32'
    state,                      \* this.state
    qemuProcess,                \* this.qemuProcess: a slot, 0 for null
    displayInfo,                \* this.displayInfo
    addedAdditionalArguments,   \* this.addedAdditionalArguments
    procs,                      \* the processes launched and not yet forgotten, by slot
    writer,                     \* the client's bound writer: slot of its stdin, 0 for null
    pending,                    \* the client's pending requests, oldest first
    stack,                      \* continuations waiting behind a running emit()
    stops,                      \* unsettled Stop() promises, by position in Stop()
    resets,                     \* unsettled Reset() promises, by position in Reset()
    ev,                         \* the call, exit handler or feed() the last step ran
    emits,                      \* the notifications the last step emitted
    scenario,                   \* history: fresh, failed (Start() has only faulted),
                                \* once (one Start(), nothing else), over
    mon,                        \* history: what followed the latest accepted Stop()
    terminal                    \* history: a non-zero exit ended the VM, no Start() since

vars == <<definition, win32, state, qemuProcess, displayInfo,
          addedAdditionalArguments, procs, writer, pending, stack, stops,
          resets, ev, emits, scenario, mon, terminal>>

----------------------------------------------------------------------------
(* Bounds of the model *)

\* Processes that exist at the same time
MaxProcs == 2
\* Calls in flight: unsettled Stop()/Reset() promises and unanswered commands
MaxCalls == 1

(* Program constants *)

VncBasePort == 5900

VMState == {"Stopped", "Starting", "Started", "Stopping"}

\* Exit codes as the exit handler tells them apart: `code == 0` or not
\* (1 stands for every other code, and for the null code of a signalled exit).
ExitCodes == {0, 1}

----------------------------------------------------------------------------
(* Command line and display information *)

\* One piece of the command string: an option, its argument, and the
\* display number or the socket path where it has one
Tok(opt, arg, n) == [opt |-> opt, arg |-> arg, n |-> n, path |-> <<>>]

BaseCommand == <<Tok("qemu-system-x86_64", "", 0)>>

kVmTmpPathBase == "/tmp"

NoDisplay == [type |-> "null", path |-> <<>>, host |-> "", port |-> 0]

Def(snapshot, forceTcp, vncHost, vncPort) ==
    [id |-> "testvm", command |-> BaseCommand, snapshot |-> snapshot,
     forceTcp |-> forceTcp, vncHost |-> vncHost, vncPort |-> vncPort]

\* The definitions an instance is constructed with.  vncHost "" and
\* vncPort <<>> stand for `undefined`; a defined port is <<port>>.
\* Each with the platform it runs on (TRUE for win32).
Configurations ==
    {<<Def(TRUE, FALSE, "", <<>>), FALSE>>,     \* the definition of the examples
     <<Def(FALSE, TRUE, "", <<>>), TRUE>>,
     <<Def(TRUE, TRUE, "10.0.0.1", <<5901>>), FALSE>>,
     <<Def(FALSE, TRUE, "", <<5899>>), FALSE>>,
     <<Def(FALSE, TRUE, "", <<0>>), FALSE>>,
     <<Def(FALSE, FALSE, "10.0.0.1", <<5899>>), FALSE>>,
     <<Def(FALSE, FALSE, "10.0.0.1", <<5899>>), TRUE>>}

GetVncPath == <<kVmTmpPathBase, "/superqemu-", definition.id, "-vnc">>

TcpDisplay == definition.forceTcp \/ win32

\* `this.definition.vncHost || '127.0.0.1'`
VncHost == IF definition.vncHost # "" THEN definition.vncHost ELSE "127.0.0.1"

\* `this.definition.vncPort || 5900`: undefined and 0 are both falsy
VncPort ==
    IF definition.vncPort # <<>> /\ definition.vncPort[1] # 0
    THEN definition.vncPort[1] ELSE VncBasePort

PortFault == TcpDisplay /\ VncPort < VncBasePort

\* The flags Start() appends to the command
AdditionalArguments ==
    <<Tok("-no-shutdown", "", 0)>>
    \o (IF definition.snapshot THEN <<Tok("-snapshot", "", 0)>> ELSE <<>>)
    \o <<Tok("-qmp", "stdio", 0)>>
    \o (IF TcpDisplay
        THEN <<Tok("-vnc", VncHost, VncPort - VncBasePort)>>
        ELSE <<[Tok("-vnc", "unix:", 0) EXCEPT !.path = GetVncPath]>>)

\* Mutation: Start() records no display information
NothingComputed == NoDisplay

ComputedDisplayInfo ==
    IF TcpDisplay
    THEN [type |-> "vnc-tcp", path |-> <<>>, host |-> VncHost, port |-> VncPort]
    ELSE [type |-> "vnc-uds", path |-> GetVncPath, host |-> "", port |-> 0]

\* Mutation: the flags are appended by every Start()
AlwaysNeedsArguments == TRUE

NeedsArguments == ~addedAdditionalArguments

\* Mutation: a Start() that appends no flags clears the display information
RecordedOnlyWithFlags ==
    IF NeedsArguments THEN ComputedDisplayInfo ELSE NoDisplay

\* this.displayInfo when Start() reaches StartQemu: assigned only where the
\* flags are appended
RecordedDisplayInfo ==
    IF NeedsArguments THEN ComputedDisplayInfo ELSE displayInfo

\* The command Start() hands to StartQemu
StartCommand ==
    IF NeedsArguments
    THEN definition.command \o AdditionalArguments
    ELSE definition.command

----------------------------------------------------------------------------
(* Observers: the state, its notifications and the promises waiting on them *)

NoEmit == [from |-> "Stopped", seq |-> <<>>, stopsResolved |-> 0,
           resetsResolved |-> 0]

\* What SetState and its listeners change, at the start of a step
Obs ==
    [state |-> state, seq |-> <<>>, stops |-> stops, resets |-> resets,
     stopsResolved |-> 0, resetsResolved |-> 0, mon |-> mon]

\* Stop() registers its listener with once(): the first notification after
\* the registration removes it, and resolves the promise only if it is Stopped.
StopListener(o, s) ==
    [o EXCEPT !.stops.listening = 0,
              !.stopsResolved = IF s = "Stopped"
                                THEN @ + o.stops.listening ELSE @]

\* Reset()'s listener stays registered until it is notified of Started.
ResetListener(o, s) ==
    IF s = "Started"
    THEN [o EXCEPT !.resets.listening = 0,
                   !.resetsResolved = @ + o.resets.listening]
    ELSE o

\* What followed the latest accepted Stop(), as long as no Start() is called:
\* "stopping" after its Stopping notification, "stopped" once the next
\* notification was Stopped, "other" after any other notification.
Monitor(m, s) ==
    CASE m = "stopping" -> IF s = "Stopped" THEN "stopped" ELSE "other"
      [] m = "stopped"  -> "other"
      [] OTHER          -> m

\* SetState: assign the state, then emit 'statechange' to every listener
SetState(o, s) ==
    LET o1 == [o EXCEPT !.state = s,
                        !.seq = Append(@, s),
                        !.mon = Monitor(@, s)]
    IN ResetListener(StopListener(o1, s), s)

\* The variables of Obs after a step that ends with them as in o
SetObs(o) ==
    /\ state' = o.state
    /\ stops' = o.stops
    /\ resets' = o.resets
    /\ mon' = o.mon
    /\ emits' = IF o.seq = <<>> THEN NoEmit
                ELSE [from |-> state, seq |-> o.seq,
                      stopsResolved |-> o.stopsResolved,
                      resetsResolved |-> o.resetsResolved]

\* A step that calls no SetState
NoSetState ==
    /\ emits' = NoEmit
    /\ UNCHANGED <<state, stops, resets, mon>>

\* Mutation: no precondition is checked
AssertNothing(stateShouldBe) == TRUE

AssertState(stateShouldBe) == state = stateShouldBe

----------------------------------------------------------------------------
(* Processes (IProcess) *)

Slots == 1..MaxProcs

NoProcess ==
    [used |-> FALSE, cmd |-> <<>>, alive |-> FALSE, disposed |-> FALSE,
     spawned |-> FALSE, killed |-> FALSE, readers |-> 0, out |-> <<>>,
     hpc |-> "idle", code |-> 0]

\* A process as launch() returns it
NewProcess(cmd) ==
    [used     |-> TRUE,
     cmd      |-> cmd,
     alive    |-> TRUE,       \* has not exited
     disposed |-> FALSE,      \* dispose() has released its 'spawn'/'exit' listeners
     spawned  |-> FALSE,      \* 'spawn' has been emitted
     killed   |-> FALSE,      \* kill('SIGTERM') has been sent to it
     readers  |-> 0,          \* StdioWriters listening for 'data' on its stdout
     out      |-> <<"greeting">>,   \* stdout messages not yet read
     hpc      |-> "idle",     \* its exit handler: idle, unlink (suspended), done
     code     |-> 0]          \* exit code, once exited

Live == {p \in Slots : procs[p].alive}

\* A process nothing can happen to any more
Inert(r) ==
    /\ r.used /\ ~r.alive
    /\ r.hpc = "done" \/ (r.disposed /\ r.hpc = "idle")
    /\ r.out = <<>> \/ r.readers = 0

Release(ps) == [p \in Slots |-> IF Inert(ps[p]) THEN NoProcess ELSE ps[p]]

FreeSlots(ps) == {p \in Slots : ~ps[p].used}

LaunchFrames(st) == {i \in DOMAIN st : st[i].kind = "launch"}

\* StopQemu: kill the tracked process, if any
StopQemu(ps) ==
    IF qemuProcess # 0
    THEN [ps EXCEPT ![qemuProcess].killed = TRUE]
    ELSE ps

----------------------------------------------------------------------------
(* Protocol client: writer binding, FIFO correlation, handshake *)

\* What the client and its listeners can change while input is fed to it
World == [pending |-> pending, procs |-> procs, settled |-> 0] @@ Obs

\* execute(): register a pending request, then send it through the bound
\* writer; with no writer bound the send is a fault.  What is written to a
\* process is not kept: when and what a process answers is up to the
\* process (Respond).
Execute(w, tag) == [w EXCEPT !.pending = Append(@, tag)]

\* reset(): the pending requests are discarded, none of them is settled
ClientReset(pend) == <<>>

\* Mutation: the 'connected' listener sets the state twice
OnConnectedTwice(w) == SetState(SetState(w, "Started"), "Started")

\* The 'connected' listener of the constructor: SetState(Started)
OnConnected(w) == SetState(w, "Started")

\* The capabilities negotiation is written to the bound writer and is
\* answered if that process still reads its stdin
Negotiates(w) == writer # 0 /\ w.procs[writer].alive

\* feed() of one message.  A greeting: the client negotiates capabilities
\* and raises 'connected' when that succeeds; the negotiation is one step
\* here.  A response: it settles the oldest pending request (FIFO), whether
\* or not a greeting came first, which is no less than the client does.
Feed(w, msg) ==
    CASE msg = "greeting" /\ Negotiates(w) -> OnConnected(w)
      [] msg = "return" /\ w.pending # <<>> ->
             [w EXCEPT !.pending = Tail(@), !.settled = @ + 1]
      [] OTHER -> w

RECURSIVE FeedTimes(_, _, _)
FeedTimes(w, msg, k) ==
    IF k = 0 THEN w ELSE FeedTimes(Feed(w, msg), msg, k - 1)

\* Commands registered and not answered
Unanswered == Len(pending)

----------------------------------------------------------------------------
(* Initial state: a freshly constructed QemuVM *)

NoEvent ==
    [op |-> "none", fault |-> "none", executed |-> FALSE, code |-> 0,
     msg |-> "", settled |-> 0, discarded |-> 0, unlink |-> "none"]

Init ==
    /\ \E c \in Configurations : definition = c[1] /\ win32 = c[2]
    /\ state = "Stopped"
    /\ qemuProcess = 0
    /\ displayInfo = NoDisplay
    /\ addedAdditionalArguments = FALSE
    /\ procs = [p \in Slots |-> NoProcess]
    /\ writer = 0
    /\ pending = <<>>
    /\ stack = <<>>
    /\ stops = [await |-> 0, listening |-> 0]
    /\ resets = [await |-> 0, listening |-> 0]
    /\ ev = NoEvent
    /\ emits = NoEmit
    /\ scenario = "fresh"
    /\ mon = "off"
    /\ terminal = FALSE

\* The continuation of an `await this.StopQemu()` is a microtask: it runs
\* before the event loop delivers any process event or I/O completion
Settled == stops.await = 0 /\ resets.await = 0

\* Calls in flight
Calls ==
    stops.await + stops.listening + resets.await + resets.listening
    + Unanswered

Called(op, fault, executed) ==
    ev' = [NoEvent EXCEPT !.op = op, !.fault = fault, !.executed = executed]

----------------------------------------------------------------------------
(* Start() and StartQemu() *)

Frame(kind, cmd) == [kind |-> kind, cmd |-> cmd]

\* StartQemu up to and including SetState(Starting); the launch itself is
\* the continuation behind the emit.  ps is procs as the step leaves it.
StartQemu(split, ps) ==
    /\ Cardinality(FreeSlots(ps)) > Cardinality(LaunchFrames(stack))
    /\ SetObs(SetState(Obs, "Starting"))
    /\ stack' = Append(stack, Frame("launch", split))

\* Mutation: Start() does not look at the tracked process
NeverTracked == FALSE

\* `if (this.qemuProcess) return;`
Tracked == qemuProcess # 0

StartBody ==
    /\ IF Tracked
       THEN /\ Called("Start", "none", FALSE)
            /\ NoSetState
            /\ UNCHANGED <<definition, displayInfo, addedAdditionalArguments,
                           stack, scenario, terminal>>
       ELSE IF NeedsArguments /\ PortFault
       THEN /\ Called("Start", "port", FALSE)
            /\ NoSetState
            /\ scenario' = "failed"
            /\ UNCHANGED <<definition, displayInfo, addedAdditionalArguments,
                           stack, terminal>>
       ELSE /\ Called("Start", "none", TRUE)
            /\ definition' = [definition EXCEPT !.command = StartCommand]
            /\ displayInfo' = RecordedDisplayInfo
            /\ addedAdditionalArguments' = TRUE
            /\ Cardinality(FreeSlots(procs)) > Cardinality(LaunchFrames(stack))
            /\ SetObs(SetState([Obs EXCEPT !.mon = "off"], "Starting"))
            /\ stack' = Append(stack, Frame("launch", StartCommand))
            /\ scenario' = IF scenario = "fresh" THEN "once" ELSE "over"
            /\ terminal' = FALSE
    /\ UNCHANGED <<win32, qemuProcess, procs, writer, pending>>

\* Start() called from the event loop
Start ==
    /\ stack = <<>>
    /\ StartBody

\* Start() called by a 'statechange' listener, inside an emit
ListenerStart ==
    /\ stack # <<>>
    /\ StartBody

\* The lowest free slot stands for the object launch() returns
NewSlot == CHOOSE p \in FreeSlots(procs) : \A q \in FreeSlots(procs) : p <= q

\* The statement after a SetState: runs when the emit returns
Resume ==
    /\ stack # <<>>
    /\ LET f == stack[Len(stack)] IN
       /\ stack' = SubSeq(stack, 1, Len(stack) - 1)
       /\ CASE f.kind = "launch" ->
                 /\ procs' = [procs EXCEPT ![NewSlot] = NewProcess(f.cmd)]
                 /\ qemuProcess' = NewSlot
            [] f.kind = "nullout" ->
                 /\ qemuProcess' = 0
                 /\ UNCHANGED procs
            [] f.kind = "kill" ->
                 /\ procs' = StopQemu(procs)
                 /\ UNCHANGED qemuProcess
    /\ ev' = NoEvent
    /\ NoSetState
    /\ UNCHANGED <<definition, win32, displayInfo, addedAdditionalArguments,
                   writer, pending, scenario, terminal>>

----------------------------------------------------------------------------
(* Stop() and Reset() *)

Stop ==
    /\ stack = <<>>
    /\ IF AssertState("Started")
       THEN /\ Calls < MaxCalls
            /\ Called("Stop", "none", TRUE)
            /\ LET o == SetState(Obs, "Stopping") IN
               SetObs([o EXCEPT !.stops.await = @ + 1,
                                !.mon = "stopping"])
            /\ stack' = Append(stack, Frame("kill", <<>>))
            /\ scenario' = "over"
       ELSE /\ Called("Stop", "precondition", FALSE)
            /\ NoSetState
            /\ UNCHANGED <<stack, scenario>>
    /\ UNCHANGED <<definition, win32, qemuProcess, displayInfo,
                   addedAdditionalArguments, procs, writer, pending, terminal>>

\* Stop() after `await this.StopQemu()`: register the once() listener
StopRegister ==
    /\ stack = <<>>
    /\ stops.await > 0
    /\ stops' = [await |-> stops.await - 1, listening |-> stops.listening + 1]
    /\ ev' = NoEvent
    /\ emits' = NoEmit
    /\ UNCHANGED <<definition, win32, state, qemuProcess, displayInfo,
                   addedAdditionalArguments, procs, writer, pending, stack,
                   resets, scenario, mon, terminal>>

Reset ==
    /\ stack = <<>>
    /\ IF AssertState("Started")
       THEN /\ Calls < MaxCalls
            /\ Called("Reset", "none", TRUE)
            /\ procs' = StopQemu(procs)
            /\ resets' = [resets EXCEPT !.await = @ + 1]
            /\ scenario' = "over"
       ELSE /\ Called("Reset", "precondition", FALSE)
            /\ UNCHANGED <<procs, resets, scenario>>
    /\ emits' = NoEmit
    /\ UNCHANGED <<definition, win32, state, qemuProcess, displayInfo,
                   addedAdditionalArguments, writer, pending, stack, stops,
                   mon, terminal>>

\* Reset() after `await this.StopQemu()`: register the listener
ResetRegister ==
    /\ stack = <<>>
    /\ resets.await > 0
    /\ resets' = [await |-> resets.await - 1,
                  listening |-> resets.listening + 1]
    /\ ev' = NoEvent
    /\ emits' = NoEmit
    /\ UNCHANGED <<definition, win32, state, qemuProcess, displayInfo,
                   addedAdditionalArguments, procs, writer, pending, stack,
                   stops, scenario, mon, terminal>>

----------------------------------------------------------------------------
(* Command surface *)

CommandOps ==
    {"QmpCommand", "MonitorCommand", "ChangeRemovableMedia",
     "EjectRemovableMedia"}

\* The operations that start with AssertState(VMState.Started)
AssertsStarted(op) == op # "QmpCommand"

Command(op) ==
    /\ stack = <<>>
    /\ IF AssertsStarted(op) /\ ~AssertState("Started")
       THEN /\ Called(op, "precondition", FALSE)
            /\ UNCHANGED <<pending, procs>>
       ELSE /\ Calls < MaxCalls
            /\ Called(op, IF writer = 0 THEN "logic" ELSE "none", TRUE)
            /\ pending' = Execute(World, "cmd").pending
            /\ UNCHANGED procs
    /\ NoSetState
    /\ UNCHANGED <<definition, win32, qemuProcess, displayInfo,
                   addedAdditionalArguments, writer, stack, scenario,
                   terminal>>

----------------------------------------------------------------------------
(* Process events *)

\* The socket file is removed unless `forceTcp && platform === 'win32'`
RemovesSocket == ~definition.forceTcp \/ ~win32

\* Mutation: an exit is never followed by a launch
NeverRelaunches(code) == FALSE

\* `self.state != VMState.Stopping` and `code == 0`: launch again
Relaunches(code) == state # "Stopping" /\ code = 0

\* The 'exit' handler from `if (self.state != VMState.Stopping)` on;
\* ps is procs as the step leaves it.
ExitBranch(code, split, ps, e) ==
    /\ ev' = [e EXCEPT !.op = "exit", !.code = code]
    /\ IF Relaunches(code)
       THEN /\ StartQemu(split, ps)
            /\ UNCHANGED terminal
       ELSE /\ SetObs(SetState(Obs, "Stopped"))
            /\ stack' = Append(stack, Frame("nullout", <<>>))
            /\ terminal' = IF state # "Stopping" THEN TRUE ELSE terminal

\* dispose() of the tracked process
Dispose(ps) ==
    IF qemuProcess # 0 THEN [ps EXCEPT ![qemuProcess].disposed = TRUE] ELSE ps

\* Mutation: the exit handler does not reset the client
ExitResetSkipped(pend) == pend

\* `self.qmpInstance.reset()` of the exit handler
ExitReset(pend) == ClientReset(pend)

\* Process p exits with `code`; its 'exit' handler runs up to the unlink
ProcExit(p, code) ==
    /\ stack = <<>>
    /\ Settled
    /\ procs[p].alive
    /\ procs[p].spawned \/ procs[p].disposed
    /\ scenario' = "over"
    /\ LET dead == [procs EXCEPT ![p].alive = FALSE, ![p].code = code] IN
       IF procs[p].disposed
       THEN /\ procs' = Release(dead)
            /\ ev' = NoEvent
            /\ NoSetState
            /\ UNCHANGED <<qemuProcess, writer, pending, stack, terminal>>
       ELSE /\ qemuProcess' = 0
            /\ pending' = ExitReset(pending)
            /\ writer' = 0
            /\ IF RemovesSocket
               THEN /\ procs' = Release([Dispose(dead) EXCEPT
                                            ![p].hpc = "unlink"])
                    /\ ev' = [NoEvent EXCEPT !.op = "teardown",
                                 !.discarded = Len(pending) - Len(pending')]
                    /\ NoSetState
                    /\ UNCHANGED <<stack, terminal>>
               ELSE LET ps == Release([Dispose(dead) EXCEPT
                                          ![p].hpc = "done"])
                    IN /\ procs' = ps
                       /\ ExitBranch(code, procs[p].cmd, ps,
                             [NoEvent EXCEPT
                                 !.discarded = Len(pending) - Len(pending')])
    /\ UNCHANGED <<definition, win32, displayInfo, addedAdditionalArguments>>

\* Mutation: a failed unlink() aborts the 'exit' handler
CaughtOnSuccess(ok) == ok

\* `try { await unlink(...) } catch (_) {}`: whether the handler goes on
\* after an unlink() that succeeded (ok) or failed (~ok)
Caught(ok) == TRUE

\* unlink() settles, with success or with an error: the 'exit' handler of p
\* continues
UnlinkDone(p, ok) ==
    /\ stack = <<>>
    /\ Settled
    /\ procs[p].hpc = "unlink"
    /\ LET ps == Release([procs EXCEPT ![p].hpc = "done"])
           e  == [NoEvent EXCEPT !.unlink = IF ok THEN "ok" ELSE "failed"]
       IN /\ procs' = ps
          /\ IF Caught(ok)
             THEN ExitBranch(procs[p].code, procs[p].cmd, ps, e)
             ELSE /\ ev' = [e EXCEPT !.op = "exit", !.code = procs[p].code,
                                     !.fault = "unlink"]
                  /\ NoSetState
                  /\ UNCHANGED <<stack, terminal>>
    /\ UNCHANGED <<definition, win32, qemuProcess, displayInfo,
                   addedAdditionalArguments, writer, pending, scenario>>

\* 'spawn' of p: QmpStdioInit binds the client to the tracked process
Spawn(p) ==
    /\ stack = <<>>
    /\ Settled
    /\ procs[p].alive /\ ~procs[p].spawned /\ ~procs[p].disposed
    /\ IF qemuProcess # 0
       THEN /\ procs' = [procs EXCEPT ![p].spawned = TRUE,
                                      ![qemuProcess].readers = @ + 1]
            /\ pending' = ClientReset(pending)
            /\ writer' = qemuProcess
       ELSE /\ procs' = [procs EXCEPT ![p].spawned = TRUE]
            /\ UNCHANGED <<pending, writer>>
    /\ ev' = [NoEvent EXCEPT !.op = "spawn",
                 !.discarded = Len(pending) - Len(pending')]
    /\ NoSetState
    /\ UNCHANGED <<definition, win32, qemuProcess, displayInfo,
                   addedAdditionalArguments, stack, scenario, terminal>>

\* One message on the stdout of p reaches every StdioWriter listening on it
Deliver(p) ==
    /\ stack = <<>>
    /\ Settled
    /\ procs[p].out # <<>>
    /\ procs[p].readers > 0
    /\ LET w0 == [World EXCEPT !.procs[p].out = Tail(@)]
           w  == FeedTimes(w0, Head(procs[p].out), procs[p].readers)
       IN /\ pending' = w.pending
          /\ procs' = Release(w.procs)
          /\ SetObs(w)
          /\ ev' = [NoEvent EXCEPT
                       !.op = "feed",
                       !.fault = IF procs[p].alive THEN "none" ELSE "stale",
                       !.executed = TRUE,
                       !.msg = Head(procs[p].out),
                       !.settled = w.settled]
    /\ UNCHANGED <<definition, win32, qemuProcess, displayInfo,
                   addedAdditionalArguments, writer, stack, scenario,
                   terminal>>

\* A response on the stdout of p reaches every StdioWriter listening on it.
\* A process writes responses when it chooses to; one that has exited can
\* still have some among its unread output.
Respond(p) ==
    /\ stack = <<>>
    /\ Settled
    /\ procs[p].readers > 0
    /\ procs[p].alive \/ procs[p].out # <<>>
    /\ LET w == FeedTimes(World, "return", procs[p].readers)
       IN /\ pending' = w.pending
          /\ ev' = [NoEvent EXCEPT
                       !.op = "feed",
                       !.fault = IF procs[p].alive THEN "none" ELSE "stale",
                       !.executed = TRUE,
                       !.msg = "return",
                       !.settled = w.settled]
    /\ NoSetState
    /\ UNCHANGED <<definition, win32, qemuProcess, displayInfo,
                   addedAdditionalArguments, procs, writer, stack, scenario,
                   terminal>>

\* The stdout of an exited process ends: what was not read is lost
CloseStdout(p) ==
    /\ stack = <<>>
    /\ Settled
    /\ procs[p].used /\ ~procs[p].alive /\ procs[p].out # <<>>
    /\ procs' = Release([procs EXCEPT ![p].out = <<>>])
    /\ ev' = NoEvent
    /\ NoSetState
    /\ UNCHANGED <<definition, win32, qemuProcess, displayInfo,
                   addedAdditionalArguments, writer, pending, stack,
                   scenario, terminal>>

----------------------------------------------------------------------------

Next ==
    \/ Start
    \/ ListenerStart
    \/ Resume
    \/ Stop
    \/ StopRegister
    \/ Reset
    \/ ResetRegister
    \/ \E op \in CommandOps : Command(op)
    \/ \E p \in Slots, code \in ExitCodes : ProcExit(p, code)
    \/ \E p \in Slots, ok \in BOOLEAN : UnlinkDone(p, ok)
    \/ \E p \in Slots : Spawn(p)
    \/ \E p \in Slots : Deliver(p)
    \/ \E p \in Slots : Respond(p)
    \/ \E p \in Slots : CloseStdout(p)

Spec == Init /\ [][Next]_vars

TypeOK ==
    /\ state \in VMState
    /\ mon \in {"off", "stopping", "stopped", "other"}
    /\ scenario \in {"fresh", "failed", "once", "over"}
    /\ qemuProcess \in {0} \cup Slots
    /\ writer \in {0} \cup Slots
    /\ qemuProcess # 0 => procs[qemuProcess].alive
    /\ writer # 0 => procs[writer].used
    /\ Calls <= MaxCalls

----------------------------------------------------------------------------
(* Properties *)

\* The command every launch is given: the original command followed by one
\* copy of the flags
AssembledCommand == BaseCommand \o AdditionalArguments

Launched == {p \in Slots : procs[p].used}

\* C1: at most one process launched by the instance has not yet exited,
\* whatever the interleaving of Start(), Stop(), Reset() and 'exit' events.
C1_AtMostOneLive == Cardinality(Live) <= 1

\* C2: on a fresh instance with a valid definition, as long as Start() has
\* been called exactly once and nothing else has happened (no Stop(), no
\* Reset(), no exit), the notifications are Starting (from Stopped) and then,
\* when the handshake completes, Started (from Starting), and nothing else.
C2_StartOnce ==
    scenario = "once" =>
        /\ state \in {"Starting", "Started"}
        /\ \/ emits.seq = <<>>
           \/ emits.seq = <<"Starting">> /\ emits.from = "Stopped"
                                         /\ state = "Starting"
           \/ emits.seq = <<"Started">> /\ emits.from = "Starting"
                                        /\ state = "Started"

C2_Witness ==
    /\ scenario = "once"
    /\ emits.seq = <<"Started">>
    /\ ev.op = "feed" /\ ev.msg = "greeting"

\* The transitions of the state table
StateTable ==
    {<<"Stopped", "Starting">>, <<"Starting", "Started">>,
     <<"Started", "Stopping">>, <<"Stopping", "Stopped">>,
     <<"Started", "Starting">>, <<"Started", "Stopped">>,
     <<"Starting", "Stopped">>}

\* The notifications of the last step, preceded by the state before them
Observed == <<emits.from>> \o emits.seq

\* C3: every pair of consecutive 'statechange' notifications (old, new) is a
\* transition of the state table.
C3_Sequential ==
    \A i \in 1..Len(emits.seq) : <<Observed[i], Observed[i + 1]>> \in StateTable

\* C4: after a Stop() accepted in Started, and as long as Start() is not
\* called, the notifications are Stopping and then Stopped and nothing else
\* (no relaunch, whatever the exit code), and a Stop() promise resolves only
\* in a step that emitted the Stopped notification.
C4_StopSequence ==
    /\ mon # "other"
    /\ emits.stopsResolved > 0 =>
           \E i \in 1..Len(emits.seq) : emits.seq[i] = "Stopped"

C6_NonZeroExitTerminal ==
    terminal =>
        /\ state = "Stopped"
        /\ stack = <<>> => qemuProcess = 0
        /\ LaunchFrames(stack) = {}

\* C7: every operation of the command surface, invoked in a state other than
\* Started, raises a precondition fault and sends nothing to the client.
C7_CommandsAssertStarted ==
    (ev.op \in CommandOps /\ state # "Started") =>
        ev.fault = "precondition" /\ ~ev.executed

\* C8: Stop() invoked in a state other than Started raises a precondition
\* fault and changes nothing: no state change, no notification, no kill.
C8_StopAssertsStarted ==
    [][(ev'.op = "Stop" /\ state # "Started") =>
           /\ ev'.fault = "precondition"
           /\ state' = state
           /\ emits'.seq = <<>>
           /\ procs' = procs
           /\ stack' = stack
           /\ stops' = stops]_vars

C8_Witness ==
    /\ ev.op = "Stop" /\ ev.fault = "precondition"
    /\ state = "Stopping"
    /\ qemuProcess # 0 /\ procs[qemuProcess].killed
    /\ stops.listening = 1

\* A definition that configures a VNC port below the floor for a TCP display
ConfiguredBelowFloor ==
    /\ TcpDisplay
    /\ definition.vncPort # <<>>
    /\ definition.vncPort[1] < VncBasePort

\* C9: with a TCP display and a configured vncPort below 5900 (0 included),
\* every Start() raises the fault, nothing is launched, the state stays
\* Stopped and neither display information nor flags are recorded.
C9_PortBelowFloorFaults ==
    ConfiguredBelowFloor =>
        /\ ev.op = "Start" => ev.fault = "port"
        /\ state = "Stopped"
        /\ Launched = {} /\ stack = <<>>
        /\ displayInfo = NoDisplay
        /\ definition.command = BaseCommand

\* C10: every launch is given the same command, the original command followed
\* by one copy of the flags, and that is what the definition keeps once the
\* flags are appended.
C10_FlagsAppendedOnce ==
    /\ \A p \in Launched : procs[p].cmd = AssembledCommand
    /\ \A i \in LaunchFrames(stack) : stack[i].cmd = AssembledCommand
    /\ definition.command =
           IF addedAdditionalArguments THEN AssembledCommand ELSE BaseCommand

C10_Witness ==
    /\ ev.op = "Start" /\ ev.executed
    /\ scenario = "over"
    /\ Launched # {}
    /\ LaunchFrames(stack) # {}

\* Start() has been called at least once
StartCalled == scenario # "fresh"

\* A Start() has got past the port check
StartPassed == scenario \in {"once", "over"}

\* C11 (as stated): GetDisplayInfo() is non-null if and only if Start() has
\* been called at least once.
C11_DisplayInfoIffStartCalled == (displayInfo # NoDisplay) <=> StartCalled

\* C11 (amended): GetDisplayInfo() is non-null if and only if some Start()
\* has got past the port check; a Start() that faults records nothing.
C11_DisplayInfoIffStartPassed == (displayInfo # NoDisplay) <=> StartPassed

C11_Witness ==
    /\ displayInfo # NoDisplay
    /\ ev.op = "Start" /\ ev.executed
    /\ scenario = "once"

\* C12: display information, once recorded, is never changed by any later
\* step, and it is recorded whenever the state is Started.
C12_DisplayInfoFrozen ==
    [][/\ displayInfo # NoDisplay => displayInfo' = displayInfo
       /\ state' = "Started" => displayInfo' # NoDisplay]_vars

C12_Witness ==
    /\ ev.op = "Start" /\ ev.executed
    /\ scenario = "over"
    /\ emits.from = "Stopped"
    /\ displayInfo = ComputedDisplayInfo
    /\ ~NeedsArguments

\* C13: Start() with a process tracked launches nothing, changes no state,
\* emits nothing and leaves command and display information as they are;
\* a Start() that emits Starting found no process tracked.
C13_StartIdempotent ==
    [][ev'.op = "Start" =>
           /\ qemuProcess # 0 =>
                  /\ ~ev'.executed /\ ev'.fault = "none"
                  /\ emits'.seq = <<>>
                  /\ state' = state /\ procs' = procs /\ stack' = stack
                  /\ qemuProcess' = qemuProcess
                  /\ definition' = definition /\ displayInfo' = displayInfo
           /\ emits'.seq # <<>> =>
                  /\ qemuProcess = 0
                  /\ emits'.seq = <<"Starting">>]_vars

C13_Witness ==
    /\ ev.op = "Start" /\ ~ev.executed /\ ev.fault = "none"
    /\ qemuProcess # 0
    /\ state = "Started"

\* C14: nothing emitted on the stdout of an exited process is fed to the
\* client while the client is bound to another, live process.
C14_NoStaleFeed ==
    ~(/\ ev.op = "feed" /\ ev.fault = "stale"
      /\ writer # 0 /\ procs[writer].alive)

\* A Reset() promise is unsettled
ResetInFlight == resets.await + resets.listening > 0

\* C15: while a Reset() accepted in Started is unsettled, a clean exit is
\* answered by a relaunch (Starting, neither Stopping nor Stopped), and the
\* promise resolves only at the Started notification that follows Starting.
C15_ResetRelaunches ==
    [][ResetInFlight =>
           /\ (ev'.op = "exit" /\ ev'.code = 0) => emits'.seq = <<"Starting">>
           /\ emits'.resetsResolved > 0 =>
                  /\ state = "Starting"
                  /\ emits'.seq = <<"Started">>]_vars

\* The display flag: the last piece of the assembled command
DisplayFlag == definition.command[Len(definition.command)]

\* C16: after Start(), with forceTcp false off Windows the display
\* information is of the uds kind with path <tmp>/superqemu-<id>-vnc, the
\* path the display flag carries; with forceTcp true it is of the tcp kind
\* with the configured host and port (defaults 127.0.0.1 and 5900) and the
\* display flag carries port - 5900.
C16_DisplayInfoValues ==
    displayInfo # NoDisplay =>
        /\ (~definition.forceTcp /\ ~win32) =>
               /\ displayInfo.type = "vnc-uds"
               /\ displayInfo.path =
                      <<kVmTmpPathBase, "/superqemu-", definition.id, "-vnc">>
               /\ DisplayFlag.opt = "-vnc" /\ DisplayFlag.arg = "unix:"
               /\ DisplayFlag.path = displayInfo.path
        /\ definition.forceTcp =>
               /\ displayInfo.type = "vnc-tcp"
               /\ displayInfo.host = IF definition.vncHost = ""
                                     THEN "127.0.0.1" ELSE definition.vncHost
               /\ displayInfo.port = IF definition.vncPort = <<>>
                                     THEN VncBasePort ELSE definition.vncPort[1]
               /\ DisplayFlag.opt = "-vnc"
               /\ DisplayFlag.arg = displayInfo.host
               /\ DisplayFlag.n = displayInfo.port - VncBasePort

\* C17: a reset of the client for a replaced transport (process exit, new
\* process bound) leaves nothing pending, and a request is only ever settled
\* while it is pending: none that a reset discarded is fulfilled or rejected
\* afterwards, whichever process a later response comes from.
C17_ResetDiscardsPending ==
    [][/\ writer' # writer => pending' = <<>> /\ ev'.settled = 0
       /\ ev'.discarded > 0 => pending' = <<>> /\ ev'.settled = 0
       /\ ev'.settled <= Len(pending)
       /\ ev'.settled > 0 =>
              pending' = SubSeq(pending, ev'.settled + 1, Len(pending))]_vars

\* The tracked process has exited with a request unanswered: the request is
\* discarded
C17_Witness ==
    /\ ev.op \in {"teardown", "exit"}
    /\ ev.discarded > 0
    /\ pending = <<>>
    /\ writer = 0

\* C18: the once() listener of a Stop() accepted in Started is removed only
\* by the notification that resolves the promise; removed by any other
\* notification, the promise never resolves, whatever exit follows.
C18_StopResolves ==
    [][stops'.listening < stops.listening =>
           emits'.stopsResolved = stops.listening - stops'.listening]_vars

\* C19: whenever the state is Started, a live process is tracked and the
\* client's writer is bound to it.
C19_StartedHasProcessAndWriter ==
    state = "Started" =>
        /\ qemuProcess # 0
        /\ procs[qemuProcess].alive
        /\ writer = qemuProcess

\* C20: whether or not the removal of the socket file succeeds, the 'exit'
\* handler raises no fault and goes on to the branch its state and exit code
\* select: a relaunch (Starting) on a clean exit outside Stopping, Stopped
\* otherwise.
C20_UnlinkBestEffort ==
    [][ev'.op = "exit" =>
           /\ ev'.fault = "none"
           /\ IF state # "Stopping" /\ ev'.code = 0
              THEN /\ state' = "Starting"
                   /\ emits'.seq = <<"Starting">>
                   /\ stack' = <<Frame("launch", BaseCommand \o
                                     (IF addedAdditionalArguments
                                      THEN AdditionalArguments ELSE <<>>))>>
              ELSE /\ state' = "Stopped"
                   /\ emits'.seq = <<"Stopped">>
                   /\ stack' = <<Frame("nullout", <<>>)>>]_vars

\* The removal failed in TCP mode, where the file was never created, and the
\* clean exit is answered by a relaunch
C20_Witness ==
    /\ ev.op = "exit" /\ ev.unlink = "failed" /\ ev.code = 0
    /\ definition.forceTcp
    /\ state = "Starting"

====
